---------------------------- MODULE Spec2Model ----------------------------
(***************************************************************************)
(* Model of rest-client.py: the polling loop of poll() with its counters,  *)
(* its output streams, the HTTP session and the KeyboardInterrupt that can *)
(* be raised at any point while control is inside the try block.           *)
(***************************************************************************)
EXTENDS Integers, Naturals, Sequences, FiniteSets, TLC

(* ------------------------------ bounds --------------------------------- *)
\* largest value of --count that is explored
MaxCount == 3
\* attempts explored in an unbounded run (--count 0) before the model stops
MaxTotal == 4
\* largest value of --interval that is explored (whole seconds)
MaxInterval == 1

\* longest --header list given to flatten_headers
MaxHeaders == 3
\* longest response body given to format_body, in characters
MaxBody == 4

(* --------------------------- environment ------------------------------- *)
\* status codes a completed HTTP exchange may carry
StatusCodes == {200, 404, 500}
\* subclasses of requests.RequestException the transport may raise
ExcClasses == {"Timeout", "ConnectionError"}

\* Python's None, for limit
None == -1

VARIABLES
    count,        \* args.count
    interval,     \* args.interval
    limit,        \* limit (None or args.count)
    stats,        \* the PollStats instance
    request_id,   \* request_id of the current iteration
    result,       \* outcome of the last session.get call
    pc,           \* position of control in poll
    session,      \* "open" inside the with block, "closed" after it
    inflight,     \* number of session.get calls that have not returned
    interrupted,  \* a KeyboardInterrupt has been raised inside the try block
    rc,           \* value returned by poll (-1 until it returns)
    trace,        \* history: requests issued, outcomes, lines printed, sleeps
    args,         \* the other fields of args: url, timeout, header, insecure, raw
    headers,      \* headers = flatten_headers(args.header)
    verify,       \* verify = not args.insecure
    calls,        \* history: the arguments of every session.get call
    fin,          \* argument of the helper function under study
    fout          \* its return value

vars == <<count, interval, limit, stats, request_id, result, pc, session,
          inflight, interrupted, rc, trace, args, headers, verify, calls,
          fin, fout>>

\* what no step of the polling loop assigns
fixed == <<args, headers, verify, fin, fout>>

(* ------------------------------ helpers -------------------------------- *)
PollStats == [total |-> 0, success |-> 0, failure |-> 0]

Limit(c) == IF c = 0 THEN None ELSE c

LoopCond_offbyone(lim, tot) == lim = None \/ tot + 1 < lim
LoopCond(lim, tot) == lim = None \/ tot < lim

ReqId_zero(tot) == tot
ReqId(tot) == tot + 1

LimitReached_offbyone(lim, tot) == lim # None /\ tot + 1 >= lim
LimitReached_strict(lim, tot) == lim # None /\ tot > lim
LimitReached_nonone(lim, tot) == tot >= lim
LimitReached(lim, tot) == lim # None /\ tot >= lim

ShouldSleep(iv) == iv > 0

ExitStatus_inverted(succ) == IF succ # 0 THEN 1 ELSE 0
ExitStatus(succ) == IF succ # 0 THEN 0 ELSE 1

NoResult == [kind |-> "none", status |-> 0, exc |-> ""]
Responses == {[kind |-> "response", status |-> s, exc |-> ""] : s \in StatusCodes}
Errors == {[kind |-> "error", status |-> 0, exc |-> e] : e \in ExcClasses}

\* the handler that takes control when session.get ends: the except clause
\* for a RequestException, the else clause for a returned Response
Classify_raise5xx(res) ==
    IF res.kind = "error" \/ res.status >= 500 THEN "except" ELSE "else"
Classify(res) == IF res.kind = "error" THEN "except" ELSE "else"

\* stream of a print call without file= (sys.stdout)
DefaultStream == "stdout"
\* stream of the ERROR line
ErrorStream == "stderr"
\* stream of the interruption notice
NoticeStream == DefaultStream

Event(k, s, n, a) == [kind |-> k, stream |-> s, seq |-> n, arg |-> a]

\* control positions inside the try block, where KeyboardInterrupt is caught
InTry == {"while", "reqid", "inc", "get", "inflight", "except", "print_err",
          "else", "print_ok", "check", "interval", "sleeping"}
AfterLoop == {"close", "summary", "return", "done"}

(* --------------------------- flatten_headers --------------------------- *)
\* headers[name] = value on the dict h
SetItem_keepfirst(h, name, value) ==
    [n \in DOMAIN h \cup {name} |-> IF n \in DOMAIN h THEN h[n] ELSE value]
SetItem(h, name, value) ==
    [n \in DOMAIN h \cup {name} |-> IF n = name THEN value ELSE h[n]]

\* the for loop over items[1..k], starting from the empty dict
RECURSIVE FlattenUpTo(_, _)
FlattenUpTo(items, k) ==
    IF k = 0 THEN <<>>
    ELSE SetItem(FlattenUpTo(items, k - 1), items[k][1], items[k][2])

flatten_headers(items) == FlattenUpTo(items, Len(items))

(* ----------------------------- format_body ----------------------------- *)
\* characters of the response bodies explored; a text is a sequence of them
BodyChars == {" ", "\n", "a", "1", "[", "]", ","}
\* what str.strip() removes and what the JSON decoder skips, among BodyChars
IsSpace(c) == c \in {" ", "\n"}

\* str.strip()
RECURSIVE LStrip(_)
LStrip(s) == IF s # <<>> /\ IsSpace(Head(s)) THEN LStrip(Tail(s)) ELSE s
RECURSIVE RStrip(_)
RStrip(s) ==
    IF s # <<>> /\ IsSpace(s[Len(s)]) THEN RStrip(SubSeq(s, 1, Len(s) - 1)) ELSE s
Strip(s) == RStrip(LStrip(s))

\* the JSON decoder on texts over BodyChars: a value is an integer (a run of
\* digits) or an array of values
RECURSIVE SkipSpace(_, _)
SkipSpace(s, i) == IF i <= Len(s) /\ IsSpace(s[i]) THEN SkipSpace(s, i + 1) ELSE i
RECURSIVE EndOfDigits(_, _)
EndOfDigits(s, i) == IF i <= Len(s) /\ s[i] = "1" THEN EndOfDigits(s, i + 1) ELSE i

JsonInt(digits) == [t |-> "int", digits |-> digits, items |-> <<>>]
JsonList(items) == [t |-> "list", digits |-> <<>>, items |-> items]
ParseFail == [ok |-> FALSE, next |-> 0, val |-> JsonInt(<<>>)]
ParseOk(n, v) == [ok |-> TRUE, next |-> n, val |-> v]

RECURSIVE ParseValue(_, _)
RECURSIVE ParseItems(_, _, _)
\* one value starting at s[i]
ParseValue(s, i) ==
    IF i > Len(s) THEN ParseFail
    ELSE IF s[i] = "1"
        THEN ParseOk(EndOfDigits(s, i), JsonInt(SubSeq(s, i, EndOfDigits(s, i) - 1)))
    ELSE IF s[i] = "["
        THEN LET k == SkipSpace(s, i + 1) IN
             IF k <= Len(s) /\ s[k] = "]" THEN ParseOk(k + 1, JsonList(<<>>))
             ELSE ParseItems(s, k, <<>>)
    ELSE ParseFail
\* the items of an array from s[i] on, acc being the items already read
ParseItems(s, i, acc) ==
    LET r == ParseValue(s, i) IN
    IF ~r.ok THEN ParseFail
    ELSE LET k == SkipSpace(s, r.next) IN
         IF k > Len(s) THEN ParseFail
         ELSE IF s[k] = "]" THEN ParseOk(k + 1, JsonList(Append(acc, r.val)))
         ELSE IF s[k] = "," THEN ParseItems(s, SkipSpace(s, k + 1), Append(acc, r.val))
         ELSE ParseFail

\* response.json(): ok = FALSE stands for the ValueError
json_loads(s) ==
    LET r == ParseValue(s, SkipSpace(s, 1)) IN
    IF r.ok /\ SkipSpace(s, r.next) = Len(s) + 1 THEN r ELSE ParseFail

\* json.dumps(data, separators=(",", ":"))
RECURSIVE Dumps(_)
RECURSIVE DumpsItems(_, _)
DumpsItems(items, k) ==
    IF k = 0 THEN <<>>
    ELSE IF k = 1 THEN Dumps(items[1])
    ELSE DumpsItems(items, k - 1) \o <<",">> \o Dumps(items[k])
Dumps(v) ==
    IF v.t = "int" THEN v.digits
    ELSE <<"[">> \o DumpsItems(v.items, Len(v.items)) \o <<"]">>

\* str(data) for data that is neither dict nor list
Str(v) == v.digits

\* the placeholders, each a text of one symbol
EmptyBody == <<"<empty body>">>
NonJsonBody == <<"<non-JSON body>">>

\* body or placeholder
OrElse(body, placeholder) == IF body = <<>> THEN placeholder ELSE body

format_body_emptyph(text, raw) ==
    IF raw THEN OrElse(Strip(text), EmptyBody)
    ELSE LET r == json_loads(text) IN
         IF ~r.ok THEN OrElse(Strip(text), EmptyBody)
         ELSE IF r.val.t = "list" THEN Dumps(r.val)
         ELSE Str(r.val)
format_body(text, raw) ==
    IF raw THEN OrElse(Strip(text), EmptyBody)
    ELSE LET r == json_loads(text) IN
         IF ~r.ok THEN OrElse(Strip(text), NonJsonBody)
         ELSE IF r.val.t = "list" THEN Dumps(r.val)
         ELSE Str(r.val)

(* ------------------------------ arguments ------------------------------ *)
DEFAULT_URL == "http://localhost:9001/color"
\* default of --timeout, in seconds
DefaultTimeout == 1
\* the --header list of the polling runs explored
HeaderArgs == {<< <<"X", "1">>, <<"X", "2">> >>}
PollArgs == [url : {DEFAULT_URL}, timeout : {DefaultTimeout}, header : HeaderArgs,
             insecure : BOOLEAN, raw : {FALSE}]
\* a variable that holds nothing yet
NoValue == <<>>

(* ------------------------------- Init ---------------------------------- *)
Init ==
    /\ count \in 0..MaxCount
    /\ interval \in 0..MaxInterval
    /\ limit = Limit(count)
    /\ stats = PollStats
    /\ request_id = 0
    /\ result = NoResult
    /\ pc = "while"
    /\ session = "open"
    /\ inflight = 0
    /\ interrupted = FALSE
    /\ rc = -1
    /\ trace = <<>>
    /\ args \in PollArgs
    /\ headers = flatten_headers(args.header)
    /\ verify = ~args.insecure
    /\ calls = <<>>
    /\ fin = NoValue
    /\ fout = NoValue

(* ------------------------------ actions -------------------------------- *)
\* while limit is None or stats.total < limit
While ==
    /\ pc = "while"
    /\ (limit = None => stats.total < MaxTotal)
    /\ pc' = IF LoopCond(limit, stats.total) THEN "reqid" ELSE "close"
    /\ UNCHANGED <<fixed, calls,
                   count, interval, limit, stats, request_id, result, session,
                   inflight, interrupted, rc, trace>>

\* request_id = stats.total + 1
AssignId ==
    /\ pc = "reqid"
    /\ request_id' = ReqId(stats.total)
    /\ pc' = "inc"
    /\ UNCHANGED <<fixed, calls,
                   count, interval, limit, stats, result, session, inflight,
                   interrupted, rc, trace>>

\* stats.total += 1 ; tick_start = ...
IncTotal ==
    /\ pc = "inc"
    /\ stats' = [stats EXCEPT !.total = @ + 1]
    /\ pc' = "get"
    /\ UNCHANGED <<fixed, calls,
                   count, interval, limit, request_id, result, session,
                   inflight, interrupted, rc, trace>>

\* the arguments of session.get(args.url, timeout=..., headers=..., verify=...)
GetArgs_verify == [url |-> args.url, timeout |-> args.timeout,
                   headers |-> headers, verify |-> TRUE]
GetArgs == [url |-> args.url, timeout |-> args.timeout, headers |-> headers,
            verify |-> verify]

\* session.get(...) is called: the request is issued
Get_async ==
    /\ pc = "get"
    /\ inflight' = inflight + 1
    /\ trace' = Append(trace, Event("req", "none", request_id,
                                    IF session = "open" THEN 1 ELSE 0))
    /\ calls' = Append(calls, GetArgs)
    /\ pc' = "check"
    /\ UNCHANGED <<fixed, count, interval, limit, stats, request_id, result,
                   session, interrupted, rc>>
Get ==
    /\ pc = "get"
    /\ inflight' = inflight + 1
    /\ trace' = Append(trace, Event("req", "none", request_id,
                                    IF session = "open" THEN 1 ELSE 0))
    /\ calls' = Append(calls, GetArgs)
    /\ pc' = "inflight"
    /\ UNCHANGED <<fixed, count, interval, limit, stats, request_id, result,
                   session, interrupted, rc>>

\* session.get returns a Response or raises a RequestException
GetEnds ==
    /\ pc = "inflight"
    /\ \E res \in Responses \cup Errors :
          /\ result' = res
          /\ trace' = Append(trace, Event(res.kind, "none", request_id, res.status))
          /\ pc' = Classify(res)
    /\ inflight' = inflight - 1
    /\ UNCHANGED <<fixed, calls,
                   count, interval, limit, stats, request_id, session,
                   interrupted, rc>>

\* except requests.RequestException: stats.failure += 1
Except_nocount ==
    /\ pc = "except"
    /\ pc' = "print_err"
    /\ UNCHANGED <<fixed, calls,
                   count, interval, limit, stats, request_id, result, session,
                   inflight, interrupted, rc, trace>>
Except ==
    /\ pc = "except"
    /\ stats' = [stats EXCEPT !.failure = @ + 1]
    /\ pc' = "print_err"
    /\ UNCHANGED <<fixed, calls,
                   count, interval, limit, request_id, result, session,
                   inflight, interrupted, rc, trace>>

\* print(f"[{request_id:04}] ERROR ...", file=sys.stderr)
PrintErr ==
    /\ pc = "print_err"
    /\ trace' = Append(trace, Event("err", ErrorStream, request_id, 0))
    /\ pc' = "check"
    /\ UNCHANGED <<fixed, calls,
                   count, interval, limit, stats, request_id, result, session,
                   inflight, interrupted, rc>>

\* else: stats.success += 1
Else_double ==
    /\ pc = "else"
    /\ stats' = [stats EXCEPT !.success = @ + 2]
    /\ pc' = "print_ok"
    /\ UNCHANGED <<fixed, calls,
                   count, interval, limit, request_id, result, session,
                   inflight, interrupted, rc, trace>>
Else ==
    /\ pc = "else"
    /\ stats' = [stats EXCEPT !.success = @ + 1]
    /\ pc' = "print_ok"
    /\ UNCHANGED <<fixed, calls,
                   count, interval, limit, request_id, result, session,
                   inflight, interrupted, rc, trace>>

\* latency_ms = ... ; body = format_body(...) ; print(f"[{request_id:04}] ...")
PrintOk ==
    /\ pc = "print_ok"
    /\ trace' = Append(trace, Event("ok", DefaultStream, request_id, result.status))
    /\ pc' = "check"
    /\ UNCHANGED <<fixed, calls,
                   count, interval, limit, stats, request_id, result, session,
                   inflight, interrupted, rc>>

\* if limit is not None and stats.total >= limit: break
Check ==
    /\ pc = "check"
    /\ pc' = IF LimitReached(limit, stats.total) THEN "close" ELSE "interval"
    /\ UNCHANGED <<fixed, calls,
                   count, interval, limit, stats, request_id, result, session,
                   inflight, interrupted, rc, trace>>

\* if args.interval > 0: time.sleep(args.interval) is entered
IntervalTest ==
    /\ pc = "interval"
    /\ IF ShouldSleep(interval)
          THEN /\ trace' = Append(trace, Event("sleep", "none", request_id, interval))
               /\ pc' = "sleeping"
          ELSE /\ trace' = trace
               /\ pc' = "while"
    /\ UNCHANGED <<fixed, calls,
                   count, interval, limit, stats, request_id, result, session,
                   inflight, interrupted, rc>>

\* time.sleep returns
Wake ==
    /\ pc = "sleeping"
    /\ pc' = "while"
    /\ UNCHANGED <<fixed, calls,
                   count, interval, limit, stats, request_id, result, session,
                   inflight, interrupted, rc, trace>>

\* KeyboardInterrupt is raised while control is inside the try block; a
\* session.get in flight is abandoned
Interrupt ==
    /\ pc \in InTry
    /\ interrupted' = TRUE
    /\ inflight' = 0
    /\ pc' = "handler"
    /\ UNCHANGED <<fixed, calls,
                   count, interval, limit, stats, request_id, result, session,
                   rc, trace>>

\* except KeyboardInterrupt: print("\nInterrupted by user.")
Handler_resume ==
    /\ pc = "handler"
    /\ trace' = Append(trace, Event("notice", NoticeStream, 0, 0))
    /\ pc' = "while"
    /\ UNCHANGED <<fixed, calls,
                   count, interval, limit, stats, request_id, result, session,
                   inflight, interrupted, rc>>
Handler_skipclose ==
    /\ pc = "handler"
    /\ trace' = Append(trace, Event("notice", NoticeStream, 0, 0))
    /\ pc' = "summary"
    /\ UNCHANGED <<fixed, calls,
                   count, interval, limit, stats, request_id, result, session,
                   inflight, interrupted, rc>>
Handler_countfailure ==
    /\ pc = "handler"
    /\ trace' = Append(trace, Event("notice", NoticeStream, 0, 0))
    /\ stats' = [stats EXCEPT !.failure = stats.total - stats.success]
    /\ pc' = "close"
    /\ UNCHANGED <<fixed, calls,
                   count, interval, limit, request_id, result, session,
                   inflight, interrupted, rc>>
Handler ==
    /\ pc = "handler"
    /\ trace' = Append(trace, Event("notice", NoticeStream, 0, 0))
    /\ pc' = "close"
    /\ UNCHANGED <<fixed, calls,
                   count, interval, limit, stats, request_id, result, session,
                   inflight, interrupted, rc>>

\* the with block is left: Session.__exit__ closes the session
Close ==
    /\ pc = "close"
    /\ session' = "closed"
    /\ pc' = "summary"
    /\ UNCHANGED <<fixed, calls,
                   count, interval, limit, stats, request_id, result, inflight,
                   interrupted, rc, trace>>

\* print(f"Stopped after {stats.total} request(s) ...")
Summary ==
    /\ pc = "summary"
    /\ trace' = Append(trace, Event("summary", DefaultStream, stats.total,
                                    <<stats.success, stats.failure>>))
    /\ pc' = "return"
    /\ UNCHANGED <<fixed, calls,
                   count, interval, limit, stats, request_id, result, session,
                   inflight, interrupted, rc>>

\* return 0 if stats.success else 1
Return ==
    /\ pc = "return"
    /\ rc' = ExitStatus(stats.success)
    /\ pc' = "done"
    /\ UNCHANGED <<fixed, calls,
                   count, interval, limit, stats, request_id, result, session,
                   inflight, interrupted, trace>>

Next ==
    \/ While
    \/ AssignId
    \/ IncTotal
    \/ Get
    \/ GetEnds
    \/ Except
    \/ PrintErr
    \/ Else
    \/ PrintOk
    \/ Check
    \/ IntervalTest
    \/ Wake
    \/ Interrupt
    \/ Handler
    \/ Close
    \/ Summary
    \/ Return

Spec == Init /\ [][Next]_vars

\* the steps of poll itself and of what it waits for: every step but the
\* KeyboardInterrupt
Progress ==
    \/ While
    \/ AssignId
    \/ IncTotal
    \/ Get
    \/ GetEnds
    \/ Except
    \/ PrintErr
    \/ Else
    \/ PrintOk
    \/ Check
    \/ IntervalTest
    \/ Wake
    \/ Handler
    \/ Close
    \/ Summary
    \/ Return

\* poll keeps running, every session.get call ends and every sleep returns
FairSpec == Init /\ [][Next]_vars /\ WF_vars(Progress)

(* ------------------ the helper functions on their own ------------------ *)
\* the polling loop has not started
PollIdle ==
    /\ count = 0
    /\ interval = 0
    /\ limit = Limit(0)
    /\ stats = PollStats
    /\ request_id = 0
    /\ result = NoResult
    /\ session = "open"
    /\ inflight = 0
    /\ interrupted = FALSE
    /\ rc = -1
    /\ trace = <<>>
    /\ args \in {a \in PollArgs : ~a.insecure}
    /\ headers = <<>>
    /\ verify = TRUE
    /\ calls = <<>>

pollVars == <<count, interval, limit, stats, request_id, result, session,
              inflight, interrupted, rc, trace, args, headers, verify, calls>>

\* header names and values of the lists given to flatten_headers
HeaderNames == {"X", "Y"}
HeaderValues == {"1", "2"}
HeaderLists ==
    UNION {[1..n -> HeaderNames \X HeaderValues] : n \in 0..MaxHeaders}

InitHeaders ==
    /\ PollIdle
    /\ pc = "fh_call"
    /\ fin \in HeaderLists
    /\ fout = NoValue

\* headers = flatten_headers(args.header)
FlattenHeaders ==
    /\ pc = "fh_call"
    /\ fout' = flatten_headers(fin)
    /\ pc' = "fh_done"
    /\ UNCHANGED <<pollVars, fin>>

NextHeaders == FlattenHeaders

SpecHeaders == InitHeaders /\ [][NextHeaders]_vars

\* the response texts given to format_body
Bodies == UNION {[1..n -> BodyChars] : n \in 0..MaxBody}

InitBody ==
    /\ PollIdle
    /\ pc = "fb_call"
    /\ fin \in [text : Bodies, raw : BOOLEAN]
    /\ fout = NoValue

\* body = format_body(response, raw=args.raw)
FormatBody ==
    /\ pc = "fb_call"
    /\ fout' = format_body(fin.text, fin.raw)
    /\ pc' = "fb_done"
    /\ UNCHANGED <<pollVars, fin>>

NextBody == FormatBody

SpecBody == InitBody /\ [][NextBody]_vars

(* ------------------------- history operators --------------------------- *)
\* number of events of kind k in the history tr
NumKindIn(tr, k) == Cardinality({i \in DOMAIN tr : tr[i].kind = k})
NumKind(k) == NumKindIn(trace, k)

IsAttemptLine(e) == e.kind \in {"ok", "err"}
IsRequest(e) == e.kind = "req"
\* the per-attempt lines, stdout and stderr together, in emission order
AttemptLines == SelectSeq(trace, IsAttemptLine)
\* the requests issued, in issue order
Requests == SelectSeq(trace, IsRequest)

(* ------------------------------ claims --------------------------------- *)

\* C1: once the loop has ended, total == success + failure, also when the
\* run was ended by a KeyboardInterrupt.  (Stated as claimed; the code
\* violates it when the interrupt arrives between stats.total += 1 and the
\* increment of success or failure.)
C1_NoDanglingAttempt ==
    pc \in AfterLoop => stats.total = stats.success + stats.failure

\* C2: with a count limit N > 0, total never exceeds N, and a run that is
\* not interrupted leaves the loop with total == N.
C2_TotalEqualsLimit ==
    count > 0 =>
        /\ stats.total <= count
        /\ (pc \in AfterLoop /\ ~interrupted => stats.total = count)

C2_Witness ==
    /\ count > 1
    /\ pc = "done"
    /\ ~interrupted
    /\ stats.total = count
    /\ stats.success > 0
    /\ stats.failure > 0

\* C3: with count = 0 control leaves the loop only by a KeyboardInterrupt:
\* every step that takes control out of the try block enters the
\* interrupt handler.
C3_UnboundedStopsOnlyByInterrupt ==
    [][(count = 0 /\ pc \in InTry /\ pc' \notin InTry)
          => (pc' = "handler" /\ interrupted')]_vars

C3_Witness ==
    /\ count = 0
    /\ stats.total >= 2
    /\ stats.success > 0
    /\ stats.failure > 0
    /\ interrupted
    /\ pc = "summary"

\* C4: the per-attempt lines, in emission order, carry the sequence numbers
\* 1, 2, 3, ...; so do the requests issued; the sequence number of the
\* attempt under way is the value of total after its increment, and no
\* request is issued before that increment.
C4_SequenceNumbersContiguous ==
    /\ \A i \in DOMAIN AttemptLines : AttemptLines[i].seq = i
    /\ \A i \in DOMAIN Requests : Requests[i].seq = i
    /\ Len(AttemptLines) <= Len(Requests)
    /\ Len(Requests) <= stats.total
    /\ (pc \in {"get", "inflight", "except", "print_err", "else", "print_ok"}
           => request_id = stats.total)

C4_Witness ==
    /\ Len(AttemptLines) >= 3
    /\ NumKind("ok") >= 1
    /\ NumKind("err") >= 1
    /\ pc = "print_ok"

\* C5: when an attempt whose transport call returned a response has been
\* classified and printed, success counts every response received so far
\* and failure counts every transport error, whatever the status codes.
C5_AnyStatusIsSuccess ==
    (pc = "check" /\ result.kind = "response") =>
        /\ stats.success = NumKind("response")
        /\ stats.failure = NumKind("error")

C5_Witness ==
    /\ pc = "check"
    /\ result.kind = "response"
    /\ result.status = 500
    /\ stats.success >= 2
    /\ \E i \in DOMAIN trace : trace[i].kind = "ok" /\ trace[i].arg = 404

\* C6: a transport error leads to the except clause, which adds exactly 1
\* to failure and leaves success and total alone; control then reaches the
\* same limit test as after a success, and that test breaks or goes on to
\* the interval by the count rule alone.
C6_TransportErrorCounted ==
    [][/\ (pc = "inflight" /\ pc' # "handler" /\ result'.kind = "error"
              => pc' = "except")
       /\ (pc = "except" /\ pc' # "handler"
              => /\ stats'.failure = stats.failure + 1
                 /\ stats'.success = stats.success
                 /\ stats'.total = stats.total
                 /\ pc' = "print_err")
       /\ (pc = "print_err" /\ pc' # "handler" => pc' = "check")
       /\ (pc = "check" /\ pc' # "handler"
              => pc' = IF count > 0 /\ stats.total >= count
                          THEN "close" ELSE "interval")
       /\ (pc' = "check" /\ result'.kind = "error"
              => stats'.failure = NumKindIn(trace', "error"))]_vars

C6_Witness ==
    /\ pc = "get"
    /\ result.kind = "error"
    /\ stats.total = 2
    /\ stats.failure = 1
    /\ stats.success = 0

\* C7: poll returns 0 exactly when success >= 1 and 1 otherwise, after a
\* run ended by the count limit and after a run ended by an interrupt.
C7_ExitStatus ==
    pc = "done" =>
        /\ rc \in {0, 1}
        /\ (rc = 0 <=> stats.success >= 1)

C7_Witness ==
    /\ pc = "done"
    /\ interrupted
    /\ stats.success = 1
    /\ stats.failure = 3
    /\ rc = 0

\* C8: the summary is printed at most once, only after the loop, exactly
\* once when poll returns, and nothing is printed after it; the notice is
\* printed exactly once in an interrupted run and never otherwise, and only
\* the summary follows it.
C8_SummaryOnceAfterLoop ==
    /\ NumKind("summary") = (IF pc \in {"return", "done"} THEN 1 ELSE 0)
    /\ NumKind("notice") = (IF interrupted /\ pc \in AfterLoop THEN 1 ELSE 0)
    /\ \A i \in DOMAIN trace :
          /\ trace[i].kind = "summary" => i = Len(trace)
          /\ trace[i].kind = "notice" =>
                \A j \in DOMAIN trace : j > i => trace[j].kind = "summary"

C8_Witness ==
    /\ pc = "done"
    /\ interrupted
    /\ NumKind("ok") >= 1
    /\ NumKind("err") >= 1
    /\ stats.total > stats.success + stats.failure

\* C9: the interruption notice goes to standard error; standard output
\* carries only per-success lines and the summary.  (Stated as claimed; the
\* code prints the notice with a plain print, to standard output.)
C9_NoticeOnStderr ==
    \A i \in DOMAIN trace :
        /\ trace[i].kind = "notice" => trace[i].stream = "stderr"
        /\ trace[i].stream = "stdout" => trace[i].kind \in {"ok", "summary"}

\* C10: a sleep happens only with interval > 0, lasts the interval, directly
\* follows the line of a resolved attempt and never the attempt that
\* reached the count limit; every request after the first is directly
\* preceded by exactly that one sleep when interval > 0, and directly by the
\* previous attempt's line when interval = 0.
C10_SleepBetweenAttempts ==
    \A i \in DOMAIN trace :
        /\ trace[i].kind = "sleep" =>
              /\ interval > 0
              /\ trace[i].arg = interval
              /\ (count = 0 \/ trace[i].seq < count)
              /\ i > 1
              /\ IsAttemptLine(trace[i-1])
              /\ trace[i-1].seq = trace[i].seq
        /\ (trace[i].kind = "req" /\ trace[i].seq > 1) =>
              /\ i > 1
              /\ IF interval > 0
                    THEN trace[i-1].kind = "sleep" /\ trace[i-1].seq = trace[i].seq - 1
                    ELSE IsAttemptLine(trace[i-1]) /\ trace[i-1].seq = trace[i].seq - 1

C10_Witness ==
    /\ count >= 2
    /\ interval > 0
    /\ pc = "done"
    /\ ~interrupted
    /\ NumKind("sleep") = count - 1
    /\ NumKind("err") >= 1

\* C11: every attempt produces exactly one line, an ok line on standard
\* output or an err line on standard error; the lines are in sequence-number
\* order and the line of attempt k precedes request k+1; once the loop has
\* ended every attempt has its line, the stdout attempt lines number success
\* and the stderr attempt lines number failure.  (Stated as claimed; the
\* code violates it when a KeyboardInterrupt ends an attempt before its
\* line is printed.)
C11_OneLinePerAttempt ==
    /\ \A i \in DOMAIN trace :
          /\ trace[i].kind = "ok" => trace[i].stream = "stdout"
          /\ trace[i].kind = "err" => trace[i].stream = "stderr"
          /\ (trace[i].kind = "req" /\ trace[i].seq > 1) =>
                \E j \in 1..(i-1) :
                    IsAttemptLine(trace[j]) /\ trace[j].seq = trace[i].seq - 1
    /\ \A i, j \in DOMAIN AttemptLines :
          i < j => AttemptLines[i].seq < AttemptLines[j].seq
    /\ pc \in AfterLoop =>
          /\ \A k \in 1..stats.total :
                Cardinality({i \in DOMAIN AttemptLines : AttemptLines[i].seq = k}) = 1
          /\ NumKind("ok") = stats.success
          /\ NumKind("err") = stats.failure

\* C12: at most one session.get call is in flight, and only while control
\* waits for it; total is incremented for a new attempt only when every
\* earlier attempt is resolved and nothing is in flight; control leaves the
\* interval test with interval > 0 only into the sleep, and leaves the
\* sleep only to the loop test (or by an interrupt).
C12_OneRequestInFlight ==
    [][/\ inflight' \in {0, 1}
       /\ (inflight' = 1 <=> pc' = "inflight")
       /\ (pc' = "get" =>
              /\ inflight = 0
              /\ stats.total = stats.success + stats.failure
              /\ pc = "inc")
       /\ (pc' = "inflight" => pc = "get" /\ inflight = 0)
       /\ (pc = "interval" /\ interval > 0 => pc' \in {"sleeping", "handler"})
       /\ (pc = "sleeping" => pc' \in {"while", "handler"})
       /\ (pc' = "reqid" => pc = "while")]_vars

C12_Witness ==
    /\ pc = "inflight"
    /\ inflight = 1
    /\ interval > 0
    /\ stats.total = 2
    /\ NumKind("sleep") = 1

\* C13: success + failure <= total in every state, no counter decreases in
\* any step, and total == success + failure from the classification of an
\* attempt until the next increment of total.
C13_CountersConsistent ==
    [][/\ stats.success + stats.failure <= stats.total
       /\ stats'.success + stats'.failure <= stats'.total
       /\ stats'.total >= stats.total
       /\ stats'.success >= stats.success
       /\ stats'.failure >= stats.failure
       /\ (pc' \in {"print_err", "print_ok", "check", "interval", "sleeping",
                    "while", "reqid", "inc"}
              => stats'.total = stats'.success + stats'.failure)]_vars

C13_Witness ==
    /\ pc = "check"
    /\ stats.total = 3
    /\ stats.success = 2
    /\ stats.failure = 1

\* C14: the session is closed exactly from the end of the with block on:
\* before the summary is printed and before poll returns, after a run ended
\* by the count limit and after an interrupt; every request was issued on
\* the open session.
C14_SessionReleased ==
    /\ (session = "closed" <=> pc \in {"summary", "return", "done"})
    /\ (NumKind("summary") > 0 => session = "closed")
    /\ (rc # -1 => session = "closed")
    /\ \A i \in DOMAIN trace : trace[i].kind = "req" => trace[i].arg = 1

C14_Witness ==
    /\ pc = "done"
    /\ session = "closed"
    /\ interrupted
    /\ NumKind("req") > NumKind("response") + NumKind("error")

C16_LastHeaderWins ==
    pc = "fh_done" =>
        /\ DOMAIN fout = {fin[i][1] : i \in DOMAIN fin}
        /\ \A n \in DOMAIN fout :
              \E i \in DOMAIN fin :
                  /\ fin[i][1] = n
                  /\ \A j \in DOMAIN fin : fin[j][1] = n => j <= i
                  /\ fout[n] = fin[i][2]

C16_Witness ==
    /\ pc = "fh_done"
    /\ fin = << <<"X", "1">>, <<"Y", "1">>, <<"X", "2">> >>
    /\ fout["X"] = "2"
    /\ fout["Y"] = "1"

\* C17: the text format_body returns contains no newline, in raw mode and
\* in parsed mode.  (Stated as claimed; str.strip() only trims the ends, so
\* the code returns a newline that stands between two other characters.)
C17_NoNewline ==
    pc = "fb_done" => \A i \in DOMAIN fout : fout[i] # "\n"

\* the part of s from its first to its last character that is not a space
Trimmed(s) ==
    LET keep == {i \in DOMAIN s : ~IsSpace(s[i])} IN
    IF keep = {} THEN <<>>
    ELSE SubSeq(s, CHOOSE i \in keep : \A j \in keep : i <= j,
                   CHOOSE i \in keep : \A j \in keep : j <= i)

\* C18: in raw mode every body renders as its trimmed text, or as the
\* empty-body placeholder when that is empty; in parsed mode a body that is
\* not JSON renders as its trimmed text, or as the non-JSON placeholder
\* when that is empty.
C18_NonJsonFallback ==
    pc = "fb_done" =>
        /\ fin.raw =>
              fout = (IF Trimmed(fin.text) = <<>> THEN EmptyBody
                      ELSE Trimmed(fin.text))
        /\ (~fin.raw /\ ~json_loads(fin.text).ok) =>
              /\ fout # EmptyBody
              /\ fout = (IF Trimmed(fin.text) = <<>> THEN NonJsonBody
                         ELSE Trimmed(fin.text))

C18_Witness ==
    /\ pc = "fb_done"
    /\ ~fin.raw
    /\ fin.text = <<" ", "\n">>
    /\ fout = NonJsonBody

\* C19: from the delivery of the interrupt on, no step changes total,
\* success or failure and no request is issued; the summary prints those
\* values and the exit status is computed from that success count.
C19_InterruptFreezesStats ==
    [][interrupted =>
          /\ stats' = stats
          /\ calls' = calls
          /\ NumKindIn(trace', "req") = NumKind("req")
          /\ inflight' = 0
          /\ (pc' = "return" =>
                 /\ trace'[Len(trace')].kind = "summary"
                 /\ trace'[Len(trace')].seq = stats.total
                 /\ trace'[Len(trace')].arg = <<stats.success, stats.failure>>)
          /\ (pc' = "done" => rc' = (IF stats.success >= 1 THEN 0 ELSE 1))]_vars

C19_Witness ==
    /\ pc = "done"
    /\ interrupted
    /\ stats.total = 2
    /\ stats.success = 1
    /\ stats.failure = 0
    /\ rc = 0

\* C20: with a count limit N > 0, when poll keeps running, every
\* session.get call ends and every sleep returns, poll eventually has
\* printed the summary and returned an exit status, after exactly N
\* attempts and N requests if no interrupt was delivered.
C20_BoundedRunTerminates ==
    (count > 0) ~>
        (/\ pc = "done"
         /\ rc \in {0, 1}
         /\ NumKind("summary") = 1
         /\ (~interrupted => stats.total = count /\ Len(calls) = count))

C20_Witness ==
    /\ count = MaxCount
    /\ pc = "done"
    /\ rc = 1
    /\ ~interrupted
    /\ stats.total = count
    /\ stats.failure = count
    /\ Len(calls) = count

=============================================================================
